---------------------------- MODULE Spec2Model ----------------------------
(***************************************************************************)
(* A model of flowfill.js: the flow layout at a common element height      *)
(* (layoutAtEltHeight), the bisection over that height (optimizeEltHeight, *)
(* bisect), the fallback of flowFill, and the polling of a video's size    *)
(* (pollVideoSize).                                                        *)
(*                                                                         *)
(* Numbers.  The JavaScript numbers of a run are represented exactly.  A   *)
(* candidate height is i + f/Scale: bisect starts from 1 and 1e5 and       *)
(* halves the interval 17 times, so every height it visits is a multiple   *)
(* of 2^-17 (MidExact checks that no halving loses a bit).  A length       *)
(* computed at the height h of one layout is h*p/q + c with integers       *)
(* p, q, c (the sum of the aspect ratios laid down, and the spacing added),*)
(* or Infinity, which eltHeight * w / 0 gives for w > 0.  Comparisons are  *)
(* decided on the exact values, without forming products that leave the    *)
(* 32-bit integers of TLC; NoTieWithW checks that no test of the packing   *)
(* falls on an exact tie, where rounded sums could decide otherwise.       *)
(*                                                                         *)
(* An element is a record with the fields width() reads; in a row it is    *)
(* named by its position in elts, which stands for the object's identity.  *)
(* Elements with zero width and zero height (NaN widths) are outside the   *)
(* inputs: the comparator of rows.sort is then inconsistent and the order  *)
(* the sort leaves is implementation-defined.                              *)
(***************************************************************************)
EXTENDS Integers, Sequences, FiniteSets, TLC

VARIABLES elts, W, H, spacing, pc, lo, hi, evals, eltHeight, err, las, result,
          videoWidth, videoHeight, polls

layoutVars == <<elts, W, H, spacing, pc, lo, hi, evals, eltHeight, err, las, result>>
pollVars == <<videoWidth, videoHeight, polls>>
vars == <<layoutVars, pollVars>>

(***************************************************************************)
(* Bounds of the model                                                     *)
(***************************************************************************)
MaxElts == 3
MaxProbe == 3
NumVideos == 2
MaxCalls == 2

(***************************************************************************)
(* Heights: i + f/Scale, 0 <= f < Scale                                    *)
(***************************************************************************)
Scale == 2^17

HInt(n) == [i |-> n, f |-> 0]

HPlus(h, n) == [i |-> h.i + n, f |-> h.f]

HLeq(h1, h2) == h1.i < h2.i \/ (h1.i = h2.i /\ h1.f <= h2.f)

\* The numerator over 2*Scale of the fractional part of lo + hi.
MidRem(l, u) == ((l.i + u.i) % 2) * Scale + l.f + u.f

\* 0.5 * (lo + hi)
Mid(l, u) ==
  LET i0 == (l.i + u.i) \div 2
      fr == MidRem(l, u) \div 2
  IN IF fr >= Scale THEN [i |-> i0 + 1, f |-> fr - Scale]
                    ELSE [i |-> i0, f |-> fr]

(***************************************************************************)
(* Exact comparison of fractions and of lengths at a height                *)
(***************************************************************************)
RECURSIVE GCD(_, _)
GCD(a, b) == IF b = 0 THEN a ELSE GCD(b, a % b)

\* a/b < c/d for a, c >= 0 and b, d > 0, by the continued fractions.
RECURSIVE FracLess(_, _, _, _)
FracLess(a, b, c, d) ==
  LET qa == a \div b
      qc == c \div d
      ra == a % b
      rc == c % d
  IN IF qa # qc THEN qa < qc
     ELSE IF rc = 0 THEN FALSE
     ELSE IF ra = 0 THEN TRUE
     ELSE FracLess(d, rc, b, ra)

\* h < M/P, for P > 0 and h >= 0
HLess(h, M, P) ==
  IF M <= 0 THEN FALSE
  ELSE h.i < M \div P \/ (h.i = M \div P /\ FracLess(h.f, Scale, M % P, P))

\* M/P < h, for P > 0 and h >= 0
HGreater(h, M, P) ==
  IF M < 0 THEN TRUE
  ELSE M \div P < h.i \/ (M \div P = h.i /\ FracLess(M % P, P, h.f, Scale))

Infinity == [inf |-> TRUE, p |-> 0, q |-> 1, c |-> 0]

\* The length h*p/q + c, the fraction p/q in lowest terms.
Lin(p, q, c) ==
  LET g == GCD(p, q)
  IN [inf |-> FALSE, p |-> p \div g, q |-> q \div g, c |-> c]

\* A number that does not depend on the height.
Const(n) == Lin(0, 1, n)

\* JavaScript's x + y
Plus(x, y) ==
  IF x.inf \/ y.inf THEN Infinity
  ELSE Lin(x.p * y.q + y.p * x.q, x.q * y.q, x.c + y.c)

\* JavaScript's x < y, the lengths taken at height h
Less(x, y, h) ==
  IF x.inf THEN FALSE
  ELSE IF y.inf THEN TRUE
  ELSE LET N == x.p * y.q - y.p * x.q
           D == x.q * y.q
           C == y.c - x.c
       IN IF N > 0 THEN HLess(h, C * D, N)
          ELSE IF N = 0 THEN 0 < C
          ELSE HGreater(h, (0 - C) * D, 0 - N)

\* Math.max(x, y)
MathMax(x, y, h) == IF Less(x, y, h) THEN y ELSE x

(***************************************************************************)
(* Elements                                                                *)
(***************************************************************************)
Img(w, h) == [tagName |-> "IMG", naturalWidth |-> w, naturalHeight |-> h]

Video(w, h) == [tagName |-> "VIDEO", videoWidth |-> w, videoHeight |-> h]

\* tagName.toLowerCase(), on the tags of the inputs
ToLowerCase(s) == CASE s = "IMG" -> "img" [] s = "VIDEO" -> "video" [] OTHER -> s

\* eltHeight * w / h as a length at the element height (eltHeight > 0, w > 0)
Scaled(w, h) == IF h = 0 THEN Infinity ELSE Lin(w, h, 0)

\* width(elt, eltHeight): the length is a form in eltHeight
width(elt) ==
  CASE ToLowerCase(elt.tagName) = "img" -> Scaled(elt.naturalWidth, elt.naturalHeight)
    [] ToLowerCase(elt.tagName) = "video" -> Scaled(elt.videoWidth, elt.videoHeight)

\* The element height itself, as a length
EltHeightLen == Lin(1, 1, 0)

RECURSIVE SumWidths(_, _, _)
SumWidths(es, row, k) ==
  IF k > Len(row) THEN Const(0)
  ELSE Plus(width(es[row[k]]), SumWidths(es, row, k + 1))

\* rowWidth(row, spacing, eltHeight); the row holds positions of es
rowWidth(es, row, sp) == Plus(SumWidths(es, row, 1), Const(sp * (Len(row) - 1)))

compareRowsReversed(es, a, b, sp, h) ==
  LET wa == rowWidth(es, a, sp)
      wb == rowWidth(es, b, sp)
  IN IF Less(wa, wb, h) THEN 1 ELSE IF Less(wb, wa, h) THEN -1 ELSE 0

\* The comparator of rows.sort
compareRows(es, a, b, sp, h) ==
  LET wa == rowWidth(es, a, sp)
      wb == rowWidth(es, b, sp)
  IN IF Less(wa, wb, h) THEN -1 ELSE IF Less(wb, wa, h) THEN 1 ELSE 0

\* r put into the sorted rows after every row that is not wider than it.
RECURSIVE InsertRow(_, _, _, _, _)
InsertRow(es, sorted, r, sp, h) ==
  IF sorted = <<>> THEN <<r>>
  ELSE IF compareRows(es, sorted[Len(sorted)], r, sp, h) <= 0
       THEN Append(sorted, r)
       ELSE Append(InsertRow(es, SubSeq(sorted, 1, Len(sorted) - 1), r, sp, h),
                   sorted[Len(sorted)])

\* rows.sort(...): a stable sort (an insertion sort)
RECURSIVE sortRows(_, _, _, _)
sortRows(es, rows, sp, h) ==
  IF rows = <<>> THEN <<>>
  ELSE InsertRow(es, sortRows(es, SubSeq(rows, 1, Len(rows) - 1), sp, h),
                 rows[Len(rows)], sp, h)

(***************************************************************************)
(* layoutAtEltHeight                                                       *)
(***************************************************************************)
\* The state of the loop before the first pass: the first element is laid down.
firstPlaced(es) ==
  [rows |-> <<>>, row |-> <<1>>, x1 |-> width(es[1]), x1max |-> width(es[1]),
   y1 |-> EltHeightLen]

\* One pass of the loop, the reflow branch forgetting rows.push(row).
placeDropsRow(es, st, k, h, Wd, sp) ==
  LET iw == width(es[k])
      right == Plus(Plus(st.x1, Const(sp)), iw)
      fits == Less(right, Const(Wd), h)
      x1 == IF fits THEN right ELSE iw
  IN [rows |-> st.rows,
      row |-> IF fits THEN Append(st.row, k) ELSE <<k>>,
      x1 |-> x1,
      x1max |-> MathMax(st.x1max, x1, h),
      y1 |-> IF fits THEN st.y1 ELSE Plus(st.y1, Plus(Const(sp), EltHeightLen))]

\* One pass of the loop, the test of the fit turned around.
placeFlipped(es, st, k, h, Wd, sp) ==
  LET iw == width(es[k])
      right == Plus(Plus(st.x1, Const(sp)), iw)
      fits == Less(Const(Wd), right, h)
      x1 == IF fits THEN right ELSE iw
  IN [rows |-> IF fits THEN st.rows ELSE Append(st.rows, st.row),
      row |-> IF fits THEN Append(st.row, k) ELSE <<k>>,
      x1 |-> x1,
      x1max |-> MathMax(st.x1max, x1, h),
      y1 |-> IF fits THEN st.y1 ELSE Plus(st.y1, Plus(Const(sp), EltHeightLen))]

\* One pass of the loop over elts.slice(1): element k goes to the right of its
\* sibling when x1 + spacing + iw < W, and else starts the next row.
place(es, st, k, h, Wd, sp) ==
  LET iw == width(es[k])
      right == Plus(Plus(st.x1, Const(sp)), iw)
      fits == Less(right, Const(Wd), h)
      x1 == IF fits THEN right ELSE iw
  IN [rows |-> IF fits THEN st.rows ELSE Append(st.rows, st.row),
      row |-> IF fits THEN Append(st.row, k) ELSE <<k>>,
      x1 |-> x1,
      x1max |-> MathMax(st.x1max, x1, h),
      y1 |-> IF fits THEN st.y1 ELSE Plus(st.y1, Plus(Const(sp), EltHeightLen))]

RECURSIVE layoutLoop(_, _, _, _, _, _)
layoutLoop(es, st, k, h, Wd, sp) ==
  IF k > Len(es) THEN st
  ELSE layoutLoop(es, place(es, st, k, h, Wd, sp), k + 1, h, Wd, sp)

\* if (row.length != 0) rows.push(row)
closeRows(st) == IF Len(st.row) # 0 THEN Append(st.rows, st.row) ELSE st.rows

\* The rows of a non-empty input as the loop leaves them, before the sort.
packedRows(es, h, Wd, sp) == closeRows(layoutLoop(es, firstPlaced(es), 2, h, Wd, sp))

layoutAtEltHeight(es, h, Wd, sp) ==
  IF Len(es) = 0 THEN [w |-> Const(0), h |-> Const(0), rows |-> <<>>]
  ELSE LET st == layoutLoop(es, firstPlaced(es), 2, h, Wd, sp)
       IN [w |-> st.x1max, h |-> st.y1, rows |-> sortRows(es, closeRows(st), sp, h)]

(***************************************************************************)
(* optimizeEltHeight, bisect, flowFill                                     *)
(***************************************************************************)
tolDoubled == 1 + 1

tol == 1

loStart == 1

hiStart == 100000

fallbackHeight == 2

NoValue == "null"

ErrLow == "low value of 1 is unexpectedly not ok"

ErrHigh == "high value of 100000 is unexpectedly ok"

\* ok without the test of the height
okWidthOnly(h) ==
  LET l == layoutAtEltHeight(elts, h, W, spacing)
  IN Less(l.w, Const(W), h)

\* The closure ok of optimizeEltHeight
ok(h) ==
  LET l == layoutAtEltHeight(elts, h, W, spacing)
  IN Less(l.w, Const(W), h) /\ Less(l.h, Const(H), h)

\* hi - lo <= tol
bisectDone(l, u) == HLeq(u, HPlus(l, tol))

bisectKeepsWrongHalf(l, u, midOk) ==
  IF midOk THEN [lo |-> l, hi |-> Mid(l, u)] ELSE [lo |-> Mid(l, u), hi |-> u]

\* The arguments of the recursive call of bisect
bisectNext(l, u, midOk) ==
  IF midOk THEN [lo |-> Mid(l, u), hi |-> u] ELSE [lo |-> l, hi |-> Mid(l, u)]

bisectReturnsHi(l, u) == u

\* The value bisect returns once hi - lo <= tol
bisectResult(l, u) == l

\* scaledElement: elt.HTML(w, h)
scaledElement(es, h, k) == [elt |-> k, w |-> width(es[k]), h |-> h]

\* rowsHTML, rowHTML: the rows of scaled elements (the spacers between them
\* carry no element)
rowsHTML(es, rows, h) ==
  [r \in 1..Len(rows) |->
     [j \in 1..Len(rows[r]) |-> scaledElement(es, h, rows[r][j])]]

(***************************************************************************)
(* The inputs of flowFill                                                  *)
(***************************************************************************)
Elements == {Img(16, 9), Video(1, 2), Img(16000, 9), Video(4, 0)}

Widths == {100, 300, 200001}

Heights == {50, 300, 200001}

Spacings == {0, 10}

EltLists == UNION {[1..n -> Elements] : n \in 0..MaxElts}

Videos == 1..NumVideos

Calls == 1..MaxCalls

VideoWidths == {4, 16}

VideoHeights == {3, 9}

NoPoll == [state |-> "none", v |-> 0, fcalls |-> <<>>]

PollIdle ==
  /\ videoWidth = [v \in Videos |-> 0]
  /\ videoHeight = [v \in Videos |-> 0]
  /\ polls = [c \in Calls |-> NoPoll]

\* The locals of flowFill and optimizeEltHeight before the first statement.
LayoutLocals ==
  /\ lo = HInt(loStart)
  /\ hi = HInt(hiStart)
  /\ evals = 0
  /\ eltHeight = NoValue
  /\ err = NoValue
  /\ las = NoValue
  /\ result = NoValue

Init ==
  /\ elts \in EltLists
  /\ W \in Widths
  /\ H \in Heights
  /\ spacing \in Spacings
  /\ pc = "start"
  /\ LayoutLocals
  /\ PollIdle

(***************************************************************************)
(* flowFill, a statement at a time                                         *)
(***************************************************************************)
\* flowFill of no elements returns null.
ReturnNull ==
  /\ pc = "start"
  /\ Len(elts) = 0
  /\ pc' = "done"
  /\ UNCHANGED <<elts, W, H, spacing, lo, hi, evals, eltHeight, err, las, result>>
  /\ UNCHANGED pollVars

\* optimizeEltHeight: if (!ok(lo)) return [null, ...]
CheckLo ==
  /\ pc = "start"
  /\ Len(elts) # 0
  /\ evals' = evals + 1
  /\ IF ~ok(lo) THEN err' = ErrLow /\ pc' = "failed"
                ELSE err' = err /\ pc' = "checkHi"
  /\ UNCHANGED <<elts, W, H, spacing, lo, hi, eltHeight, las, result>>
  /\ UNCHANGED pollVars

\* optimizeEltHeight: if (ok(hi)) return [null, ...]
CheckHi ==
  /\ pc = "checkHi"
  /\ evals' = evals + 1
  /\ IF ok(hi) THEN err' = ErrHigh /\ pc' = "failed"
               ELSE err' = err /\ pc' = "bisect"
  /\ UNCHANGED <<elts, W, H, spacing, lo, hi, eltHeight, las, result>>
  /\ UNCHANGED pollVars

\* bisect with hi - lo > tol: ok(mid), and the call of bisect on one half
BisectStep ==
  /\ pc = "bisect"
  /\ ~bisectDone(lo, hi)
  /\ evals' = evals + 1
  /\ LET next == bisectNext(lo, hi, ok(Mid(lo, hi)))
     IN lo' = next.lo /\ hi' = next.hi
  /\ UNCHANGED <<elts, W, H, spacing, pc, eltHeight, err, las, result>>
  /\ UNCHANGED pollVars

\* bisect with hi - lo <= tol returns [lo, null] to flowFill
BisectReturn ==
  /\ pc = "bisect"
  /\ bisectDone(lo, hi)
  /\ eltHeight' = bisectResult(lo, hi)
  /\ pc' = "optimized"
  /\ UNCHANGED <<elts, W, H, spacing, lo, hi, evals, err, las, result>>
  /\ UNCHANGED pollVars

\* eltHeight left null, which the arithmetic of the layout reads as 0
puntKeepsNull == HInt(0)

\* The height flowFill takes when optimizeEltHeight returned an error.
puntHeight == HInt(fallbackHeight)

\* flowFill: if (err != null) { console.warn(...); eltHeight = 2; }
Punt ==
  /\ pc = "failed"
  /\ eltHeight' = puntHeight
  /\ pc' = "optimized"
  /\ UNCHANGED <<elts, W, H, spacing, lo, hi, evals, err, las, result>>
  /\ UNCHANGED pollVars

\* flowFill: las = layoutAtEltHeight(...); return rowsHTML(las.rows, ...)
Render ==
  /\ pc = "optimized"
  /\ las' = layoutAtEltHeight(elts, eltHeight, W, spacing)
  /\ result' = rowsHTML(elts, las'.rows, eltHeight)
  /\ pc' = "done"
  /\ UNCHANGED <<elts, W, H, spacing, lo, hi, evals, eltHeight, err>>
  /\ UNCHANGED pollVars

Next ==
  \/ ReturnNull
  \/ CheckLo
  \/ CheckHi
  \/ BisectStep
  \/ BisectReturn
  \/ Punt
  \/ Render

Spec == Init /\ [][Next]_vars

(***************************************************************************)
(* pollVideoSize                                                           *)
(***************************************************************************)
\* v.videoWidth && v.videoHeight
sizeKnown(v) == videoWidth[v] # 0 /\ videoHeight[v] # 0

\* The video's metadata arrives: a dimension becomes known.
SetVideoWidth(v, w) ==
  /\ videoWidth[v] = 0
  /\ videoWidth' = [videoWidth EXCEPT ![v] = w]
  /\ UNCHANGED <<videoHeight, polls>>
  /\ UNCHANGED layoutVars

SetVideoHeight(v, h) ==
  /\ videoHeight[v] = 0
  /\ videoHeight' = [videoHeight EXCEPT ![v] = h]
  /\ UNCHANGED <<videoWidth, polls>>
  /\ UNCHANGED layoutVars

\* The call pollVideoSize(v, f): the interval is set only when a dimension
\* is still zero.
PollVideoSize(c, v) ==
  /\ polls[c].state = "none"
  /\ polls' = [polls EXCEPT ![c] =
       [state |-> IF ~sizeKnown(v) THEN "polling" ELSE "returned",
        v |-> v, fcalls |-> <<>>]]
  /\ UNCHANGED <<videoWidth, videoHeight>>
  /\ UNCHANGED layoutVars

\* The interval of call c fires: check()
Check(c) ==
  /\ polls[c].state = "polling"
  /\ LET v == polls[c].v
     IN IF sizeKnown(v)
        THEN polls' = [polls EXCEPT ![c].state = "cleared",
                         ![c].fcalls = Append(@, <<videoWidth[v], videoHeight[v]>>)]
        ELSE polls' = polls
  /\ UNCHANGED <<videoWidth, videoHeight>>
  /\ UNCHANGED layoutVars

PollInit ==
  /\ elts = <<>>
  /\ W = 300
  /\ H = 300
  /\ spacing = 0
  /\ pc = "idle"
  /\ LayoutLocals
  /\ PollIdle

PollNext ==
  \/ \E v \in Videos, w \in VideoWidths : SetVideoWidth(v, w)
  \/ \E v \in Videos, h \in VideoHeights : SetVideoHeight(v, h)
  \/ \E c \in Calls, v \in Videos : PollVideoSize(c, v)
  \/ \E c \in Calls : Check(c)

PollSpec == PollInit /\ [][PollNext]_vars

(***************************************************************************)
(* Checks of the representation                                            *)
(***************************************************************************)
\* No halving of bisect loses a bit, and the heights stay in [1, 1e5].
MidExact ==
  /\ lo.f \in 0..(Scale - 1) /\ hi.f \in 0..(Scale - 1)
  /\ lo.i >= loStart /\ HLeq(hi, HInt(hiStart)) /\ HLeq(lo, hi)
  /\ (pc = "bisect" /\ ~bisectDone(lo, hi)) => MidRem(lo, hi) % 2 = 0

\* The positions j, j+1, ..., k
RunOf(j, k) == [x \in 1..(k - j + 1) |-> j + x - 1]

\* The exact values decide every test of the packing as the floating-point
\* values do: at no height a run computes a layout for is a run of two or
\* more elements exactly as wide as W, so every x1 + spacing + iw differs from
\* W by far more than the rounding of its sums.
NoTieWithW ==
  \A h \in (IF pc = "bisect" /\ ~bisectDone(lo, hi) THEN {Mid(lo, hi)}
                                                    ELSE {lo, hi, puntHeight}) :
    \A j, k \in 1..Len(elts) :
      j < k =>
        LET v == rowWidth(elts, RunOf(j, k), spacing)
        IN v.inf \/ Less(v, Const(W), h) \/ Less(Const(W), v, h)

(***************************************************************************)
(* Definitions the claims share                                            *)
(***************************************************************************)
Passed == Len(elts) # 0 /\ err = NoValue

HasZeroHeight ==
  \E k \in 1..Len(elts) :
    IF ToLowerCase(elts[k].tagName) = "img" THEN elts[k].naturalHeight = 0
                                            ELSE elts[k].videoHeight = 0

\* The height of the layout the run is about to compute: ok(lo), ok(hi),
\* ok(mid), and the layout flowFill returns.
NextHeights ==
  CASE pc = "start" -> {lo}
    [] pc = "checkHi" -> {hi}
    [] pc = "bisect" -> IF bisectDone(lo, hi) THEN {} ELSE {Mid(lo, hi)}
    [] pc = "failed" -> {puntHeight}
    [] pc = "optimized" -> {eltHeight}
    [] OTHER -> {}

ProbeWidthSeq == <<300, 30, 1000, 100, 150, 200001>>

ProbeWidths == {ProbeWidthSeq[k] : k \in 1..Len(ProbeWidthSeq)}

ProbeInts == {1, 2, 10, 50, 100, 1000, 100000}

\* The row is the positions a, a+1, ..., b of the input, in that order.
IsRun(row) ==
  /\ Len(row) >= 1
  /\ \A j \in 1..Len(row) : row[j] = row[1] + j - 1

\* Every position 1..n is in exactly one row.
CoversOnce(rows, n) ==
  \A k \in 1..n :
    Cardinality({r \in 1..Len(rows) : \E j \in 1..Len(rows[r]) : rows[r][j] = k}) = 1
    /\ \A r \in 1..Len(rows) :
         Cardinality({j \in 1..Len(rows[r]) : rows[r][j] = k}) <= 1

\* The rows, one after the other, are the input from first to last.
RECURSIVE Flatten(_)
Flatten(rows) == IF rows = <<>> THEN <<>> ELSE Head(rows) \o Flatten(Tail(rows))

SameRows(rs, ps) ==
  /\ Len(rs) = Len(ps)
  /\ {rs[r] : r \in 1..Len(rs)} = {ps[r] : r \in 1..Len(ps)}

\* eltHeight * n + spacing * (n - 1), as a length
StackHeight(n, sp) == Plus(Lin(n, 1, 0), Const(sp * (n - 1)))

(***************************************************************************)
(* C1  Fit: when both precondition checks passed, every row of the layout  *)
(* flowFill builds at the height bisect returned is narrower than W, and   *)
(* eltHeight*rowCount + spacing*(rowCount-1) is less than H.               *)
(***************************************************************************)
C1_Fit ==
  (pc = "done" /\ Passed) =>
    /\ \A r \in 1..Len(las.rows) :
         Less(rowWidth(elts, las.rows[r], spacing), Const(W), eltHeight)
    /\ Less(StackHeight(Len(las.rows), spacing), Const(H), eltHeight)

C1_Witness ==
  /\ pc = "done" /\ Passed
  /\ Len(las.rows) >= 2
  /\ \E r \in 1..Len(las.rows) : Len(las.rows[r]) >= 2
  /\ eltHeight.f # 0

(***************************************************************************)
(* C2  Maximality within tolerance: the height h optimizeEltHeight returns *)
(* is feasible, bisect stopped with hi - lo <= tol around the boundary     *)
(* (lo feasible, hi not), and every examined height from h + 1 to 1e5 is   *)
(* infeasible, every examined height up to h feasible.                     *)
(***************************************************************************)
C2_Maximal ==
  (pc \in {"optimized", "done"} /\ Passed) =>
    /\ eltHeight = lo
    /\ bisectDone(lo, hi)
    /\ ok(eltHeight)
    /\ ~ok(hi)
    /\ \A k \in 1..MaxProbe :
         HLeq(HPlus(eltHeight, k), HInt(hiStart)) => ~ok(HPlus(eltHeight, k))
    /\ \A n \in ProbeInts :
         IF HLeq(HPlus(eltHeight, 1), HInt(n)) THEN ~ok(HInt(n))
         ELSE HLeq(HInt(n), eltHeight) => ok(HInt(n))

C2_Witness ==
  /\ pc = "optimized" /\ Passed
  /\ Len(elts) >= 2
  /\ eltHeight.f # 0
  /\ eltHeight.i >= 50
  /\ HLeq(HPlus(eltHeight, MaxProbe), HInt(hiStart))

(***************************************************************************)
(* C3  Fallback: a failed precondition check (ok(1) false, or ok(1e5)      *)
(* true) makes optimizeEltHeight return its error before any step of       *)
(* bisect; flowFill then lays out at height 2, and the rows hold every     *)
(* input element exactly once (a single element: one row of one element).  *)
(***************************************************************************)
C3_Fallback ==
  /\ (evals >= 1 /\ ~ok(HInt(loStart))) => err = ErrLow
  /\ (evals >= 2 /\ ok(HInt(loStart)) /\ ok(HInt(hiStart))) => err = ErrHigh
  /\ err # NoValue =>
       /\ pc \in {"failed", "optimized", "done"}
       /\ evals <= 2 /\ lo = HInt(loStart) /\ hi = HInt(hiStart)
       /\ pc \in {"optimized", "done"} => eltHeight = HInt(fallbackHeight)
       /\ pc = "done" =>
            /\ las = layoutAtEltHeight(elts, HInt(fallbackHeight), W, spacing)
            /\ Len(result) = Len(las.rows)
            /\ CoversOnce(las.rows, Len(elts))
            /\ Len(elts) = 1 => las.rows = << <<1>> >>

C3_Witness ==
  /\ pc = "done"
  /\ err = ErrLow
  /\ elts = << Img(16000, 9) >> /\ W = 300 /\ H = 300
  /\ las.rows = << <<1>> >>
  /\ eltHeight = HInt(2)

(***************************************************************************)
(* C4  One-shot readiness notification, as the claim states it: for every  *)
(* call of pollVideoSize, whatever the dimensions were at the call, once   *)
(* both are non-zero and no check is pending any more, f has been called   *)
(* exactly once, with (videoWidth, videoHeight).                           *)
(***************************************************************************)
C4_NotifiedOnce ==
  \A c \in Calls :
    /\ Len(polls[c].fcalls) <= 1
    /\ (polls[c].state \in {"returned", "cleared"} /\ sizeKnown(polls[c].v)) =>
         polls[c].fcalls = << <<videoWidth[polls[c].v], videoHeight[polls[c].v]>> >>

Scenario5 ==
  /\ elts = << Img(16, 9), Img(16, 9), Img(16, 9) >>
  /\ W = 300 /\ H = 300 /\ spacing = 10

\* The three elements side by side: 3*(16h/9) + 2*10
ThreeAcross == Plus(Lin(48, 9, 0), Const(20))

(***************************************************************************)
(* C5  The scenario of three 16x9 elements, W = 300, H = 300, spacing 10.  *)
(***************************************************************************)
\* C5 as stated: the returned height h satisfies 3*(16h/9) + 20 < 300 and is
\* within 1 of 52.5, the largest such value.
C5_AsStated ==
  (Scenario5 /\ pc = "done") =>
    /\ err = NoValue
    /\ Less(ThreeAcross, Const(300), eltHeight)
    /\ HLeq(eltHeight, Mid(HInt(53), HInt(54)))
    /\ HLeq(Mid(HInt(51), HInt(52)), eltHeight)

\* C5 amended: the returned height h stacks the three elements in three rows
\* of one element: 3h + 2*10 < 300, h is within 1 of the largest such value
\* (3(h+1) + 20 >= 300), and one element is narrower than 300.
C5_Scenario ==
  (Scenario5 /\ pc = "done") =>
    /\ err = NoValue
    /\ las.rows = << <<1>>, <<2>>, <<3>> >>
    /\ Less(StackHeight(3, 10), Const(300), eltHeight)
    /\ ~Less(StackHeight(3, 10), Const(300), HPlus(eltHeight, 1))
    /\ Less(width(elts[1]), Const(300), eltHeight)
    /\ ~Less(ThreeAcross, Const(300), eltHeight)

C5_Witness == Scenario5 /\ pc = "done" /\ err = NoValue /\ evals = 19

(***************************************************************************)
(* C6  Undefined aspect ratio, as the claim states it: with an element of  *)
(* zero intrinsic height the outcome is an error that is neither of the    *)
(* two messages of an infeasible search, and no element is rendered with   *)
(* an infinite width.                                                      *)
(***************************************************************************)
C6_DistinctError ==
  (pc = "done" /\ HasZeroHeight) =>
    /\ err \notin {NoValue, ErrLow, ErrHigh}
    /\ \A r \in 1..Len(result) : \A j \in 1..Len(result[r]) : ~result[r][j].w.inf

ContiguousSplit(rows, packed, n) ==
  /\ \A r \in 1..Len(rows) : IsRun(rows[r])
  /\ CoversOnce(rows, n)
  /\ Flatten(packed) = [k \in 1..n |-> k]
  /\ SameRows(rows, packed)

(***************************************************************************)
(* C7  Row order: the rows of layoutAtEltHeight are a contiguous split of  *)
(* the input: each row is a run of consecutive input positions in the      *)
(* input's order, every element is in exactly one row, and the sort only   *)
(* permutes the rows the packing made.                                     *)
(***************************************************************************)
C7_RowOrder ==
  /\ \A h \in NextHeights :
       ContiguousSplit(layoutAtEltHeight(elts, h, W, spacing).rows,
                       IF Len(elts) = 0 THEN <<>> ELSE packedRows(elts, h, W, spacing),
                       Len(elts))
  /\ (pc = "done" /\ Len(elts) # 0) =>
       ContiguousSplit(las.rows, packedRows(elts, eltHeight, W, spacing), Len(elts))

C7_Witness ==
  /\ pc = "done" /\ Passed
  /\ Len(las.rows) = 2
  /\ las.rows # packedRows(elts, eltHeight, W, spacing)
  /\ Len(las.rows[2]) = 2

SortedStable(rows, h) ==
  LET wd(r) == rowWidth(elts, rows[r], spacing)
  IN \A r1, r2 \in 1..Len(rows) :
       r1 < r2 =>
         /\ ~Less(wd(r2), wd(r1), h)
         /\ ~Less(wd(r1), wd(r2), h) => rows[r1][1] < rows[r2][1]

(***************************************************************************)
(* C8  Row sort: the widths rowWidth(row, spacing, eltHeight) of the rows  *)
(* layoutAtEltHeight returns never decrease from one row to the next, and  *)
(* rows of equal width stay in the order in which they were packed.        *)
(***************************************************************************)
C8_RowSort ==
  /\ \A h \in NextHeights : SortedStable(layoutAtEltHeight(elts, h, W, spacing).rows, h)
  /\ (pc = "done" /\ Len(elts) # 0) => SortedStable(las.rows, eltHeight)

C8_Witness ==
  /\ pc = "done" /\ Len(elts) = 3
  /\ Len(las.rows) = 3
  /\ las.rows # packedRows(elts, eltHeight, W, spacing)
  /\ ~Less(rowWidth(elts, las.rows[2], spacing), rowWidth(elts, las.rows[3], spacing),
           eltHeight)
  /\ Less(rowWidth(elts, las.rows[1], spacing), rowWidth(elts, las.rows[2], spacing),
          eltHeight)

\* The evaluations of ok still allowed, then the statements of flowFill left.
Measure == 3 * (19 - evals) + (CASE pc = "done" -> 0 [] pc = "optimized" -> 1 [] OTHER -> 2)

C9_Counts ==
  /\ evals <= 19
  /\ (pc \in {"optimized", "done"} /\ Passed) => evals = 19
  /\ pc = "bisect" => (evals >= 2 /\ (bisectDone(lo, hi) <=> evals = 19))

(***************************************************************************)
(* C9  Convergence bound: a search that passed both precondition checks    *)
(* ends, after exactly 19 evaluations of ok (2 checks and 17 midpoints),   *)
(* whatever the elements, W, H and spacing; no run evaluates ok more       *)
(* often, and every step of a run lowers a measure that is never negative. *)
(***************************************************************************)
C9_Evaluations == [](C9_Counts) /\ [][Measure' < Measure]_vars

C9_Witness ==
  /\ pc = "done" /\ Passed /\ evals = 19
  /\ Len(elts) = MaxElts
  /\ \E j, k \in 1..Len(elts) : elts[j] # elts[k]

RowCount(h, Wd) == Len(layoutAtEltHeight(elts, h, Wd, spacing).rows)

\* The row counts at height h for the first k of the widths examined.
RECURSIVE RowCounts(_, _)
RowCounts(h, k) ==
  IF k = 0 THEN <<>> ELSE Append(RowCounts(h, k - 1), RowCount(h, ProbeWidthSeq[k]))

(***************************************************************************)
(* C10  Monotonic packing: at a fixed element height and spacing, a larger *)
(* maximal width never gives more rows.                                    *)
(***************************************************************************)
C10_MonotonicPacking ==
  \A h \in NextHeights :
    LET n == RowCounts(h, Len(ProbeWidthSeq))
    IN \A j, k \in 1..Len(ProbeWidthSeq) :
         ProbeWidthSeq[j] <= ProbeWidthSeq[k] => n[k] <= n[j]

C10_Witness ==
  /\ Len(elts) = 3
  /\ pc = "bisect" /\ ~bisectDone(lo, hi)
  /\ \E W1, W2 \in ProbeWidths :
       /\ W1 < W2
       /\ RowCount(Mid(lo, hi), W1) = 3
       /\ RowCount(Mid(lo, hi), W2) = 2

============================================================================
